---- MODULE Spec2Model ----
(***************************************************************************)
(* KnowNet: the in-memory knowledge graph (KnowledgeNetwork) and its       *)
(* Statement entity.  A network is the pair of the ordered statements map  *)
(* (a JavaScript Map iterates in insertion order, so it is kept as the     *)
(* sequence of its values) and the reverse index derivationMap.            *)
(***************************************************************************)
EXTENDS Integers, Sequences, FiniteSets, TLC

\* ------------------------------------------------------------------ bounds
MaxId == 3          \* statement ids are 1..MaxId
MaxParents == 2     \* longest derivedFrom list given to add / update
MaxOps == 3         \* calls made in one run, with every field varied
MaxCalls == 5       \* calls made in one run that varies type and derivedFrom only
MaxCallers == 3     \* request handlers that run at the same time

\* confidence is kept in hundredths: One stands for the literal 1
One == 100

Ids == 1..MaxId
StatementTypes == {"axiom", "theory", "conclusion"}
\* content is a string, kept as its sequence of characters
Contents == {<<>>, <<" ">>, <<"a">>}
\* an optional number is the empty sequence (undefined) or <<n>>
Confidences == {<<>>, <<-1>>, <<One>>, <<One + 1>>}
TagLists == {<<>>, <<"t">>}
DerivedFroms == UNION {[1..n -> Ids] : n \in 0..MaxParents}

Range(seq) == {seq[i] : i \in 1..Len(seq)}

\* ------------------------------------------------------- Statement entity
RECURSIVE TrimStart(_)
TrimStart(str) ==
    IF str # <<>> /\ Head(str) = " " THEN TrimStart(Tail(str)) ELSE str

RECURSIVE TrimEnd(_)
TrimEnd(str) ==
    IF str # <<>> /\ str[Len(str)] = " "
    THEN TrimEnd(SubSeq(str, 1, Len(str) - 1))
    ELSE str

Trim(str) == TrimEnd(TrimStart(str))

\* Statement.validate: the name of the first rule that throws, or "ok"
validate(s) ==
    IF s.content = <<>> \/ Len(Trim(s.content)) = 0 THEN "content"
    ELSE IF s.confidence # <<>> /\ (s.confidence[1] < 0 \/ s.confidence[1] > One)
         THEN "confidence"
    ELSE IF s.type = "axiom" /\ Len(s.derivedFrom) > 0 THEN "axiom"
    ELSE IF s.type = "theory" /\ Len(s.derivedFrom) = 0 THEN "theory"
    ELSE "ok"

\* new Statement(type, content, options): the fields are set, then validate
\* runs; thrown is "ok" when the constructor returns
NewStatement(type, content, options) ==
    LET s == [id |-> options.id, type |-> type, content |-> content,
              confidence |-> options.confidence, tags |-> options.tags,
              derivedFrom |-> options.derivedFrom]
    IN [statement |-> s, thrown |-> validate(s)]

\* the Statement objects a caller can hold: those the constructor returns
Constructed(contents, confidences, tagLists, derivedFroms) ==
    LET made == {NewStatement(ty, c, [id |-> i, confidence |-> f, tags |-> t,
                                      derivedFrom |-> d]) :
                    ty \in StatementTypes, c \in contents, i \in Ids,
                    f \in confidences, t \in tagLists, d \in derivedFroms}
    IN {m.statement : m \in {n \in made : n.thrown = "ok"}}

Statements == Constructed(Contents, Confidences, TagLists, DerivedFroms)

\* Partial<Omit<IStatement, 'id' | 'createdAt'>>: a record holding only the
\* fields that are given
TypeAndParentUpdates(derivedFroms) ==
    {[type |-> ty] : ty \in StatementTypes}
    \cup {[derivedFrom |-> d] : d \in derivedFroms}
    \cup {[type |-> ty, derivedFrom |-> d] : ty \in StatementTypes, d \in derivedFroms}

Updates ==
    TypeAndParentUpdates(DerivedFroms)
    \cup {[content |-> c] : c \in Contents}
    \cup {[confidence |-> f] : f \in Confidences \ {<<>>}}
    \cup {[tags |-> t] : t \in TagLists}
    \cup {[content |-> c, tags |-> t] : c \in Contents, t \in TagLists}

Given(updates, field) == field \in DOMAIN updates

\* the statements and the updates that differ in type and derivedFrom only
DerivationStatements == Constructed({<<"a">>}, {<<>>}, {<<>>}, DerivedFroms)

DerivationUpdates == TypeAndParentUpdates(DerivedFroms)

\* those with at most one parent
ChainDerivedFroms == {d \in DerivedFroms : Len(d) <= 1}

ChainStatements == Constructed({<<"a">>}, {<<>>}, {<<>>}, ChainDerivedFroms)

ChainUpdates == TypeAndParentUpdates(ChainDerivedFroms)

\* Statement.update: the fields are assigned on the object itself, then the
\* whole object is validated; the object keeps the assignments either way
update(s, updates) ==
    LET s1 == [id |-> s.id,
               type |-> IF Given(updates, "type") THEN updates.type ELSE s.type,
               content |-> IF Given(updates, "content") THEN updates.content ELSE s.content,
               confidence |-> IF Given(updates, "confidence") THEN updates.confidence ELSE s.confidence,
               tags |-> IF Given(updates, "tags") THEN updates.tags ELSE s.tags,
               derivedFrom |-> IF Given(updates, "derivedFrom") THEN updates.derivedFrom ELSE s.derivedFrom]
    IN [statement |-> s1, thrown |-> validate(s1)]

\* ------------------------------------------------------- KnowledgeNetwork
\* Map.has / Map.get / Map.set / Map.delete on the statements map
has(stmts, id) == \E i \in 1..Len(stmts) : stmts[i].id = id
get(stmts, id) == stmts[CHOOSE i \in 1..Len(stmts) : stmts[i].id = id]
set(stmts, s) ==
    IF has(stmts, s.id)
    THEN [i \in 1..Len(stmts) |-> IF stmts[i].id = s.id THEN s ELSE stmts[i]]
    ELSE Append(stmts, s)
delete(stmts, id) == SelectSeq(stmts, LAMBDA s : s.id # id)

EmptyNetwork == [statements |-> <<>>, derivationMap |-> <<>>]

\* removeEdges leaving an emptied bucket in the index
RECURSIVE removeEdgesKeepBucket(_, _, _)
removeEdgesKeepBucket(dm, parents, id) ==
    IF parents = <<>> THEN dm
    ELSE LET p == Head(parents)
             dm1 == IF p \in DOMAIN dm THEN [dm EXCEPT ![p] = @ \ {id}] ELSE dm
         IN removeEdgesKeepBucket(dm1, Tail(parents), id)

\* derivationMap.get(parentId)?.delete(id), then the bucket is dropped at size 0
RECURSIVE removeEdges(_, _, _)
removeEdges(dm, parents, id) ==
    IF parents = <<>> THEN dm
    ELSE LET p == Head(parents)
             dm1 == IF p \in DOMAIN dm THEN [dm EXCEPT ![p] = @ \ {id}] ELSE dm
             dm2 == IF p \in DOMAIN dm1 /\ dm1[p] = {}
                    THEN [q \in DOMAIN dm1 \ {p} |-> dm1[q]]
                    ELSE dm1
         IN removeEdges(dm2, Tail(parents), id)

\* the bucket is created when missing, then id is added to it
RECURSIVE addEdges(_, _, _)
addEdges(dm, parents, id) ==
    IF parents = <<>> THEN dm
    ELSE LET p == Head(parents)
             dm1 == IF p \in DOMAIN dm THEN dm
                    ELSE [q \in DOMAIN dm \cup {p} |-> IF q = p THEN {} ELSE dm[q]]
         IN addEdges([dm1 EXCEPT ![p] = @ \cup {id}], Tail(parents), id)

validateDerivations(stmts, statement) ==
    \A i \in 1..Len(statement.derivedFrom) : has(stmts, statement.derivedFrom[i])

\* the depth-first search of checkForCircularDependencies; visited and stack
\* are shared by the whole search
RECURSIVE hasCycle(_, _, _, _)
RECURSIVE hasCycleAny(_, _, _, _)
hasCycle(stmts, id, visited, stack) ==
    IF id \in stack THEN [found |-> TRUE, visited |-> visited, stack |-> stack]
    ELSE IF id \in visited THEN [found |-> FALSE, visited |-> visited, stack |-> stack]
    ELSE LET r == IF has(stmts, id)
                  THEN hasCycleAny(stmts, get(stmts, id).derivedFrom,
                                   visited \cup {id}, stack \cup {id})
                  ELSE [found |-> FALSE, visited |-> visited \cup {id},
                        stack |-> stack \cup {id}]
         IN IF r.found THEN r
            ELSE [found |-> FALSE, visited |-> r.visited, stack |-> r.stack \ {id}]

hasCycleAny(stmts, parents, visited, stack) ==
    IF parents = <<>> THEN [found |-> FALSE, visited |-> visited, stack |-> stack]
    ELSE LET r == hasCycle(stmts, Head(parents), visited, stack)
         IN IF r.found THEN r
            ELSE hasCycleAny(stmts, Tail(parents), r.visited, r.stack)

\* TRUE when checkForCircularDependencies throws
checkForCircularDependencies(stmts, statement) ==
    hasCycleAny(stmts, statement.derivedFrom, {}, {statement.id}).found

Outcome(result, stmts, dm) ==
    [result |-> result, statements |-> stmts, derivationMap |-> dm]

\* addStatement storing the statement before it checks the parents
addStatementStoreFirst(net, statement) ==
    IF has(net.statements, statement.id)
    THEN Outcome("duplicate", net.statements, net.derivationMap)
    ELSE IF ~validateDerivations(net.statements, statement)
    THEN Outcome("dangling", set(net.statements, statement), net.derivationMap)
    ELSE IF checkForCircularDependencies(net.statements, statement)
    THEN Outcome("cycle", set(net.statements, statement), net.derivationMap)
    ELSE Outcome("ok", set(net.statements, statement),
                 addEdges(net.derivationMap, statement.derivedFrom, statement.id))

addStatement(net, statement) ==
    IF has(net.statements, statement.id)
    THEN Outcome("duplicate", net.statements, net.derivationMap)
    ELSE IF ~validateDerivations(net.statements, statement)
    THEN Outcome("dangling", net.statements, net.derivationMap)
    ELSE IF checkForCircularDependencies(net.statements, statement)
    THEN Outcome("cycle", net.statements, net.derivationMap)
    ELSE Outcome("ok", set(net.statements, statement),
                 addEdges(net.derivationMap, statement.derivedFrom, statement.id))

updateStatement(net, id, updates) ==
    IF ~has(net.statements, id)
    THEN Outcome("notfound", net.statements, net.derivationMap)
    ELSE LET statement == get(net.statements, id)
             oldDerivedFrom == statement.derivedFrom
             u == update(statement, updates)
             stmts == set(net.statements, u.statement)
         IN IF u.thrown # "ok"
            THEN Outcome("validation", stmts, net.derivationMap)
            ELSE IF ~Given(updates, "derivedFrom")
            THEN Outcome("ok", stmts, net.derivationMap)
            ELSE IF ~validateDerivations(stmts, u.statement)
            THEN Outcome("dangling", stmts, net.derivationMap)
            ELSE IF checkForCircularDependencies(stmts, u.statement)
            THEN Outcome("cycle", stmts, net.derivationMap)
            ELSE Outcome("ok", stmts,
                         addEdges(removeEdges(net.derivationMap, oldDerivedFrom, id),
                                  u.statement.derivedFrom, id))

deleteStatement(net, id) ==
    IF ~has(net.statements, id)
    THEN Outcome("notfound", net.statements, net.derivationMap)
    ELSE IF id \in DOMAIN net.derivationMap /\ Cardinality(net.derivationMap[id]) > 0
    THEN Outcome("hasdependents", net.statements, net.derivationMap)
    ELSE Outcome("ok", delete(net.statements, id),
                 removeEdges(net.derivationMap, get(net.statements, id).derivedFrom, id))

\* the ids of the statements getDependents returns
getDependents(net, statementId) ==
    IF statementId \notin DOMAIN net.derivationMap THEN {}
    ELSE {id \in net.derivationMap[statementId] : has(net.statements, id)}

\* Statement.toJSON: the plain record of the fields
StatementToJSON(s) ==
    [id |-> s.id, type |-> s.type, content |-> s.content,
     confidence |-> s.confidence, tags |-> s.tags, derivedFrom |-> s.derivedFrom]

\* Statement.fromJSON: the constructor runs validate on the rebuilt object
StatementFromJSON(data) ==
    NewStatement(data.type, data.content,
                 [id |-> data.id, confidence |-> data.confidence,
                  tags |-> data.tags, derivedFrom |-> data.derivedFrom])

toJSON(net) ==
    [statements |-> [i \in 1..Len(net.statements) |-> StatementToJSON(net.statements[i])]]

\* Array.prototype.sort with (a, b) => a.derivedFrom.length - b.derivedFrom.length;
\* the sort is stable
RECURSIVE insertSorted(_, _)
insertSorted(sorted, s) ==
    IF sorted = <<>> THEN <<s>>
    ELSE IF Len(sorted[Len(sorted)].derivedFrom) - Len(s.derivedFrom) > 0
         THEN Append(insertSorted(SubSeq(sorted, 1, Len(sorted) - 1), s),
                     sorted[Len(sorted)])
         ELSE Append(sorted, s)

RECURSIVE sortByDerivedFromLength(_)
sortByDerivedFromLength(list) ==
    IF list = <<>> THEN <<>>
    ELSE insertSorted(sortByDerivedFromLength(SubSeq(list, 1, Len(list) - 1)),
                      list[Len(list)])

\* the loop of fromJSON: the first addStatement that throws ends it
RECURSIVE addAll(_, _)
addAll(net, list) ==
    IF list = <<>> THEN Outcome("ok", net.statements, net.derivationMap)
    ELSE LET r == addStatement(net, Head(list))
         IN IF r.result # "ok" THEN r
            ELSE addAll([statements |-> r.statements,
                         derivationMap |-> r.derivationMap], Tail(list))

fromJSON(data) ==
    LET built == [i \in 1..Len(data.statements) |-> StatementFromJSON(data.statements[i])]
    IN IF \E i \in 1..Len(built) : built[i].thrown # "ok"
       THEN Outcome("validation", <<>>, <<>>)
       ELSE addAll(EmptyNetwork,
                   sortByDerivedFromLength([i \in 1..Len(built) |-> built[i].statement]))

\* ------------------------------------------------------- DerivationEngine
\* collectAncestors: ancestors and visited are shared by the whole traversal
RECURSIVE collectAncestors(_, _, _)
RECURSIVE collectAncestorsOfAll(_, _, _)
collectAncestors(net, id, acc) ==
    IF id \in acc.visited THEN acc
    ELSE LET acc1 == [acc EXCEPT !.visited = @ \cup {id}]
         IN IF ~has(net.statements, id) THEN acc1
            ELSE collectAncestorsOfAll(net, get(net.statements, id).derivedFrom, acc1)

collectAncestorsOfAll(net, parents, acc) ==
    IF parents = <<>> THEN acc
    ELSE collectAncestorsOfAll(
             net, Tail(parents),
             collectAncestors(net, Head(parents),
                              [acc EXCEPT !.ancestors = @ \cup {Head(parents)}]))

\* getAllAncestors stopping at the parents
getAllAncestorsDirect(net, statementId) ==
    IF has(net.statements, statementId)
    THEN Range(get(net.statements, statementId).derivedFrom)
    ELSE {}

getAllAncestors(net, statementId) ==
    collectAncestors(net, statementId, [ancestors |-> {}, visited |-> {}]).ancestors

\* Array.from(set) lists a bucket in the order its ids were inserted; the
\* model keeps a bucket as a set, so the caller gives the order: ids with a
\* smaller order[id] come first
RECURSIVE listInOrder(_, _)
listInOrder(order, ids) ==
    IF ids = {} THEN <<>>
    ELSE LET first == CHOOSE x \in ids : \A y \in ids : order[x] <= order[y]
         IN <<first>> \o listInOrder(order, ids \ {first})

\* collectDescendants: descendants and visited are shared by the traversal
RECURSIVE collectDescendants(_, _, _, _)
RECURSIVE collectDescendantsOfAll(_, _, _, _)
collectDescendants(net, order, id, acc) ==
    IF id \in acc.visited THEN acc
    ELSE collectDescendantsOfAll(net, order, listInOrder(order, getDependents(net, id)),
                                 [acc EXCEPT !.visited = @ \cup {id}])

collectDescendantsOfAll(net, order, dependents, acc) ==
    IF dependents = <<>> THEN acc
    ELSE collectDescendantsOfAll(
             net, order, Tail(dependents),
             collectDescendants(net, order, Head(dependents),
                                [acc EXCEPT !.descendants = @ \cup {Head(dependents)}]))

getAllDescendants(net, order, statementId) ==
    collectDescendants(net, order, statementId,
                       [descendants |-> {}, visited |-> {}]).descendants

\* what a call to the engine answers: a number (value), undefined, a set of
\* ids, a path or null; a recursion that never returns ends in a RangeError
\* (call stack exceeded)
Answer(kind, value, ids, path) ==
    [kind |-> kind, value |-> value, ids |-> ids, path |-> path]
Undefined == Answer("undefined", 0, {}, <<>>)
Number(v) == Answer("number", v, {}, <<>>)
RangeError == Answer("RangeError", 0, {}, <<>>)
SetOfIds(ids) == Answer("set", 0, ids, <<>>)
Null == Answer("null", 0, {}, <<>>)
Path(ids) == Answer("path", 0, {}, ids)

RECURSIVE Pow(_, _)
Pow(b, n) == IF n = 0 THEN 1 ELSE b * Pow(b, n - 1)

\* the factor 0.95 is DiscountNum / DiscountDen.  A computed confidence is
\* kept in units of 1 / (One * DiscountDen^MaxId), in which every product
\* the recursion can form over MaxId statements is a whole number
DiscountNum == 19
DiscountDen == 20
Fine == Pow(DiscountDen, MaxId)
Discounted(v) == (v * DiscountNum) \div DiscountDen

\* Math.min(...numbers) / Math.max(...numbers) of a non-empty list
RECURSIVE MathMin(_)
MathMin(numbers) ==
    IF Len(numbers) = 1 THEN numbers[1]
    ELSE LET m == MathMin(Tail(numbers))
         IN IF numbers[1] < m THEN numbers[1] ELSE m

RECURSIVE MathMax(_)
MathMax(numbers) ==
    IF Len(numbers) = 1 THEN numbers[1]
    ELSE LET m == MathMax(Tail(numbers))
         IN IF numbers[1] > m THEN numbers[1] ELSE m

\* calculateConfidence returning the least parent confidence as it is
RECURSIVE calculateConfidenceUndiscounted(_, _, _)
calculateConfidenceUndiscounted(net, statementId, path) ==
    IF ~has(net.statements, statementId) THEN Undefined
    ELSE LET statement == get(net.statements, statementId)
         IN IF statement.confidence # <<>> THEN Number(statement.confidence[1] * Fine)
            ELSE IF statement.type = "axiom" THEN Number(One * Fine)
            ELSE IF Len(statement.derivedFrom) = 0 THEN Undefined
            ELSE IF statementId \in path THEN RangeError
            ELSE LET results == [i \in 1..Len(statement.derivedFrom) |->
                                    calculateConfidenceUndiscounted(
                                        net, statement.derivedFrom[i],
                                        path \cup {statementId})]
                     defined == SelectSeq(results, LAMBDA r : r.kind = "number")
                     parentConfidences == [i \in 1..Len(defined) |-> defined[i].value]
                 IN IF \E i \in 1..Len(results) : results[i].kind = "RangeError"
                    THEN RangeError
                    ELSE IF Len(parentConfidences) = 0 THEN Undefined
                    ELSE Number(MathMin(parentConfidences))

\* calculateConfidence taking the largest parent confidence
RECURSIVE calculateConfidenceMax(_, _, _)
calculateConfidenceMax(net, statementId, path) ==
    IF ~has(net.statements, statementId) THEN Undefined
    ELSE LET statement == get(net.statements, statementId)
         IN IF statement.confidence # <<>> THEN Number(statement.confidence[1] * Fine)
            ELSE IF statement.type = "axiom" THEN Number(One * Fine)
            ELSE IF Len(statement.derivedFrom) = 0 THEN Undefined
            ELSE IF statementId \in path THEN RangeError
            ELSE LET results == [i \in 1..Len(statement.derivedFrom) |->
                                    calculateConfidenceMax(net, statement.derivedFrom[i],
                                                           path \cup {statementId})]
                     defined == SelectSeq(results, LAMBDA r : r.kind = "number")
                     parentConfidences == [i \in 1..Len(defined) |-> defined[i].value]
                 IN IF \E i \in 1..Len(results) : results[i].kind = "RangeError"
                    THEN RangeError
                    ELSE IF Len(parentConfidences) = 0 THEN Undefined
                    ELSE Number(Discounted(MathMax(parentConfidences)))

\* calculateConfidence: path holds the statements whose call is still open;
\* the recursion has no guard, so entering the parent loop of a statement
\* that is on the path repeats for ever
RECURSIVE calculateConfidence(_, _, _)
calculateConfidence(net, statementId, path) ==
    IF ~has(net.statements, statementId) THEN Undefined
    ELSE LET statement == get(net.statements, statementId)
         IN IF statement.confidence # <<>> THEN Number(statement.confidence[1] * Fine)
            ELSE IF statement.type = "axiom" THEN Number(One * Fine)
            ELSE IF Len(statement.derivedFrom) = 0 THEN Undefined
            ELSE IF statementId \in path THEN RangeError
            ELSE LET results == [i \in 1..Len(statement.derivedFrom) |->
                                    calculateConfidence(net, statement.derivedFrom[i],
                                                        path \cup {statementId})]
                     defined == SelectSeq(results, LAMBDA r : r.kind = "number")
                     parentConfidences == [i \in 1..Len(defined) |-> defined[i].value]
                 IN IF \E i \in 1..Len(results) : results[i].kind = "RangeError"
                    THEN RangeError
                    ELSE IF Len(parentConfidences) = 0 THEN Undefined
                    ELSE Number(Discounted(MathMin(parentConfidences)))

\* the entries findShortestPath pushes for the neighbours of the entry taken
Pushed(path, ids) ==
    [i \in 1..Len(ids) |-> [id |-> ids[i], path |-> Append(path, ids[i])]]

\* the loop of findShortestPath: queue.shift() takes the oldest entry
RECURSIVE search(_, _, _, _, _)
search(net, order, toId, queue, visited) ==
    IF queue = <<>> THEN Null
    ELSE LET id == Head(queue).id
             path == Head(queue).path
             rest == Tail(queue)
         IN IF id = toId THEN Path(path)
            ELSE IF id \in visited
            THEN search(net, order, toId, rest, visited)
            ELSE IF ~has(net.statements, id)
            THEN search(net, order, toId, rest, visited \cup {id})
            ELSE search(
                     net, order, toId,
                     rest \o Pushed(path, get(net.statements, id).derivedFrom)
                          \o Pushed(path, listInOrder(order, getDependents(net, id))),
                     visited \cup {id})

findShortestPath(net, order, fromId, toId) ==
    search(net, order, toId, <<[id |-> fromId, path |-> <<fromId>>]>>, {})

\* getDerivationDepth: path holds the statements whose call is still open;
\* the recursion has no guard
RECURSIVE getDerivationDepth(_, _, _)
getDerivationDepth(net, statementId, path) ==
    IF ~has(net.statements, statementId) THEN Number(-1)
    ELSE LET statement == get(net.statements, statementId)
         IN IF statement.type = "axiom" \/ Len(statement.derivedFrom) = 0
            THEN Number(0)
            ELSE IF statementId \in path THEN RangeError
            ELSE LET results == [i \in 1..Len(statement.derivedFrom) |->
                                    getDerivationDepth(net, statement.derivedFrom[i],
                                                       path \cup {statementId})]
                     parentDepths == [i \in 1..Len(results) |-> results[i].value]
                 IN IF \E i \in 1..Len(results) : results[i].kind = "RangeError"
                    THEN RangeError
                    ELSE Number(MathMax(parentDepths) + 1)

\* a DerivationChain as the depth-first list of its nodes, each node its
\* statementId followed by the number of its parents chains
RECURSIVE buildChain(_, _, _)
RECURSIVE buildChains(_, _, _, _)
\* buildChain: path holds the ids of the calls that have not returned; a call
\* for an id on it repeats without end, and the call stack overflows
buildChain(net, statement, path) ==
    IF statement.id \in path THEN RangeError
    ELSE buildChains(net, statement.derivedFrom, path \cup {statement.id},
                     Path(<<statement.id, 0>>))

\* the loop over statement.derivedFrom: chain is the node with the parents
\* pushed so far
buildChains(net, parents, path, chain) ==
    IF parents = <<>> THEN chain
    ELSE IF ~has(net.statements, Head(parents))
    THEN buildChains(net, Tail(parents), path, chain)
    ELSE LET parent == buildChain(net, get(net.statements, Head(parents)), path)
         IN IF parent.kind = "RangeError" THEN RangeError
            ELSE buildChains(net, Tail(parents), path,
                             Path(<<chain.path[1], chain.path[2] + 1>>
                                  \o SubSeq(chain.path, 3, Len(chain.path))
                                  \o parent.path))

getDerivationChain(net, statementId) ==
    IF ~has(net.statements, statementId) THEN Null
    ELSE buildChain(net, get(net.statements, statementId), {})

\* --------------------------------------------------- ContradictionDetector
\* a string is the sequence of its characters
LowerCaseLetters ==
    <<"a", "b", "c", "d", "e", "f", "g", "h", "i", "j", "k", "l", "m", "n", "o", "p", "q", "r", "s", "t", "u", "v", "w", "x", "y", "z">>
UpperCaseLetters ==
    <<"A", "B", "C", "D", "E", "F", "G", "H", "I", "J", "K", "L", "M", "N", "O", "P", "Q", "R", "S", "T", "U", "V", "W", "X", "Y", "Z">>
DigitCharacters == {"0", "1", "2", "3", "4", "5", "6", "7", "8", "9"}
WhiteSpace == {" ", "\t", "\n"}

\* String.prototype.toLowerCase
LowerCaseOf ==
    [c \in Range(UpperCaseLetters) |->
        LowerCaseLetters[CHOOSE k \in 1..Len(UpperCaseLetters) : UpperCaseLetters[k] = c]]

toLowerCase(str) ==
    [i \in 1..Len(str) |->
        IF str[i] \in DOMAIN LowerCaseOf THEN LowerCaseOf[str[i]] ELSE str[i]]

\* \w and \s of the regular expressions
WordCharacters ==
    Range(LowerCaseLetters) \cup Range(UpperCaseLetters) \cup DigitCharacters \cup {"_"}

\* replace(/[^\w\s]/g, ' ')
replaceNonWord(str) ==
    [i \in 1..Len(str) |->
        IF str[i] \in WordCharacters \/ str[i] \in WhiteSpace THEN str[i] ELSE " "]

\* replace(/\s+/g, ' '): every run of white space becomes one space
RECURSIVE collapseWhiteSpace(_)
collapseWhiteSpace(str) ==
    IF str = <<>> THEN <<>>
    ELSE IF Head(str) \in WhiteSpace
    THEN IF Len(str) > 1 /\ str[2] \in WhiteSpace
         THEN collapseWhiteSpace(Tail(str))
         ELSE <<" ">> \o collapseWhiteSpace(Tail(str))
    ELSE <<Head(str)>> \o collapseWhiteSpace(Tail(str))

normalizeContent(content) ==
    Trim(collapseWhiteSpace(replaceNonWord(toLowerCase(content))))

\* String.prototype.indexOf, counted from 1; 0 when word does not occur
indexOf(str, word) ==
    LET places == {i \in 1..(Len(str) - Len(word) + 1) :
                      \A k \in 1..Len(word) : str[i + k - 1] = word[k]}
    IN IF places = {} THEN 0 ELSE CHOOSE i \in places : \A j \in places : i <= j

\* String.prototype.lastIndexOf, counted from 1
lastIndexOf(str, word) ==
    LET places == {i \in 1..(Len(str) - Len(word) + 1) :
                      \A k \in 1..Len(word) : str[i + k - 1] = word[k]}
    IN IF places = {} THEN 0 ELSE CHOOSE i \in places : \A j \in places : i >= j

includes(str, word) == indexOf(str, word) # 0

\* str.replace(word, ''): the first occurrence of word is removed
replaceFirst(str, word) ==
    IF ~includes(str, word) THEN str
    ELSE SubSeq(str, 1, indexOf(str, word) - 1)
         \o SubSeq(str, indexOf(str, word) + Len(word), Len(str))

\* str.split(' ')
RECURSIVE split(_)
split(str) ==
    IF ~includes(str, <<" ">>) THEN <<str>>
    ELSE <<SubSeq(str, 1, indexOf(str, <<" ">>) - 1)>>
         \o split(SubSeq(str, indexOf(str, <<" ">>) + 1, Len(str)))

\* new Set(str.split(' ').filter((w) => w.length > 2))
words(str) == {w \in Range(split(str)) : Len(w) > 2}

\* calculateSimilarity: the ratio intersection.size / union.size as the pair
\* of its numerator and denominator; 0 is 0 / 1
calculateSimilarity(str1, str2) ==
    LET words1 == words(str1)
        words2 == words(str2)
    IN IF words1 = {} \/ words2 = {} THEN [num |-> 0, den |-> 1]
       ELSE [num |-> Cardinality(words1 \cap words2),
             den |-> Cardinality(words1 \cup words2)]

\* the thresholds 0.8 and 0.7 as fractions
SimilarNum == 4
SimilarDen == 5
SemanticNum == 7
SemanticDen == 10

\* similarity > num / den
Above(similarity, num, den) == similarity.num * den > num * similarity.den

\* areSimilar taking a similarity of 0.8 itself as similar
areSimilarFromThreshold(str1, str2) ==
    LET normalized1 == normalizeContent(str1)
        normalized2 == normalizeContent(str2)
        similarity == calculateSimilarity(normalized1, normalized2)
    IN normalized1 = normalized2
       \/ similarity.num * SimilarDen >= SimilarNum * similarity.den

areSimilar(str1, str2) ==
    LET normalized1 == normalizeContent(str1)
        normalized2 == normalizeContent(str2)
    IN normalized1 = normalized2
       \/ Above(calculateSimilarity(normalized1, normalized2), SimilarNum, SimilarDen)

\* a ContradictionPair; reason is the text of the reason and the two terms
\* it quotes.  A ContradictionPair | null is <<>> or <<pair>>
ContradictionPair(stmt1, stmt2, reason, term1, term2, severity) ==
    [statement1 |-> stmt1, statement2 |-> stmt2,
     reason |-> [text |-> reason, term1 |-> term1, term2 |-> term2],
     severity |-> severity]
\* the table of checkDirectContradiction
opposites ==
  <<
    <<<<"t", "r", "u", "e">>,
      <<"f", "a", "l", "s", "e">>>>,
    <<<<"a", "l", "w", "a", "y", "s">>,
      <<"n", "e", "v", "e", "r">>>>,
    <<<<"a", "l", "l">>,
      <<"n", "o", "n", "e">>>>,
    <<<<"p", "o", "s", "s", "i", "b", "l", "e">>,
      <<"i", "m", "p", "o", "s", "s", "i", "b", "l", "e">>>>,
    <<<<"n", "e", "c", "e", "s", "s", "a", "r", "y">>,
      <<"u", "n", "n", "e", "c", "e", "s", "s", "a", "r", "y">>>>,
    <<<<"e", "x", "i", "s", "t">>,
      <<"n", "o", "t", " ", "e", "x", "i", "s", "t">>>>,
    <<<<"e", "x", "i", "s", "t", "s">>,
      <<"d", "o", "e", "s", " ", "n", "o", "t", " ", "e", "x", "i", "s", "t">>>>
  >>

\* the for loop of checkDirectContradiction from entry k on
RECURSIVE directFrom(_, _, _, _, _)
directFrom(k, stmt1, stmt2, content1, content2) ==
    IF k > Len(opposites) THEN <<>>
    ELSE LET word1 == opposites[k][1]
             word2 == opposites[k][2]
             restOfContent1 == replaceFirst(replaceFirst(content1, word1), word2)
             restOfContent2 == replaceFirst(replaceFirst(content2, word1), word2)
         IN IF /\ (includes(content1, word1) /\ includes(content2, word2))
                  \/ (includes(content1, word2) /\ includes(content2, word1))
               /\ areSimilar(restOfContent1, restOfContent2)
            THEN <<ContradictionPair(stmt1, stmt2, "Opposing terms", word1, word2, "high")>>
            ELSE directFrom(k + 1, stmt1, stmt2, content1, content2)

checkDirectContradiction(stmt1, stmt2) ==
    LET content1 == normalizeContent(stmt1.content)
        content2 == normalizeContent(stmt2.content)
    IN IF content1 = content2 /\ stmt1.type = stmt2.type THEN <<>>
       ELSE directFrom(1, stmt1, stmt2, content1, content2)

\* the templates of checkNegationContradiction: "any" is /^(.+)$/, "prefix"
\* is /^text(.+)$/, "infix" is /^(.+)text(.+)$/
Template(kind, text) == [kind |-> kind, text |-> text]

negationPatterns ==
  <<
    \* /^(.+)$/ and /^not (.+)$/
    [positive |-> Template("any", <<>>),
     negative |-> Template("prefix", <<"n", "o", "t", " ">>)],
    \* /^(.+)$/ and /^no (.+)$/
    [positive |-> Template("any", <<>>),
     negative |-> Template("prefix", <<"n", "o", " ">>)],
    \* /^(.+) is (.+)$/ and /^(.+) is not (.+)$/
    [positive |-> Template("infix", <<" ", "i", "s", " ">>),
     negative |-> Template("infix", <<" ", "i", "s", " ", "n", "o", "t", " ">>)],
    \* /^(.+) are (.+)$/ and /^(.+) are not (.+)$/
    [positive |-> Template("infix", <<" ", "a", "r", "e", " ">>),
     negative |-> Template("infix", <<" ", "a", "r", "e", " ", "n", "o", "t", " ">>)],
    \* /^(.+) can (.+)$/ and /^(.+) cannot (.+)$/
    [positive |-> Template("infix", <<" ", "c", "a", "n", " ">>),
     negative |-> Template("infix", <<" ", "c", "a", "n", "n", "o", "t", " ">>)],
    \* /^(.+) will (.+)$/ and /^(.+) will not (.+)$/
    [positive |-> Template("infix", <<" ", "w", "i", "l", "l", " ">>),
     negative |-> Template("infix", <<" ", "w", "i", "l", "l", " ", "n", "o", "t", " ">>)]
  >>

\* content.match(template): <<>> for null, else <<the first capture group>>;
\* (.+) is greedy, so the first group of an infix template runs to the last
\* place of the text that leaves both groups non-empty
match(content, template) ==
    IF template.kind = "any"
    THEN IF Len(content) > 0 THEN <<content>> ELSE <<>>
    ELSE IF template.kind = "prefix"
    THEN IF /\ Len(content) > Len(template.text)
            /\ SubSeq(content, 1, Len(template.text)) = template.text
         THEN <<SubSeq(content, Len(template.text) + 1, Len(content))>>
         ELSE <<>>
    ELSE LET inner == SubSeq(content, 2, Len(content) - 1)
             at == lastIndexOf(inner, template.text)
         IN IF at = 0 THEN <<>> ELSE <<SubSeq(content, 1, at)>>

\* negationFrom trying the positive template on the first statement only
RECURSIVE negationFromOneWay(_, _, _, _, _)
negationFromOneWay(k, stmt1, stmt2, content1, content2) ==
    IF k > Len(negationPatterns) THEN <<>>
    ELSE LET match1Positive == match(content1, negationPatterns[k].positive)
             match2Negative == match(content2, negationPatterns[k].negative)
         IN IF /\ match1Positive # <<>> /\ match2Negative # <<>>
               /\ areSimilar(match1Positive[1], match2Negative[1])
            THEN <<ContradictionPair(stmt1, stmt2, "Direct negation pattern detected",
                                     <<>>, <<>>, "high")>>
            ELSE negationFromOneWay(k + 1, stmt1, stmt2, content1, content2)

\* the for loop of checkNegationContradiction from entry k on
RECURSIVE negationFrom(_, _, _, _, _)
negationFrom(k, stmt1, stmt2, content1, content2) ==
    IF k > Len(negationPatterns) THEN <<>>
    ELSE LET match1Positive == match(content1, negationPatterns[k].positive)
             match1Negative == match(content1, negationPatterns[k].negative)
             match2Positive == match(content2, negationPatterns[k].positive)
             match2Negative == match(content2, negationPatterns[k].negative)
             found == <<ContradictionPair(stmt1, stmt2, "Direct negation pattern detected",
                                          <<>>, <<>>, "high")>>
         IN IF /\ match1Positive # <<>> /\ match2Negative # <<>>
               /\ areSimilar(match1Positive[1], match2Negative[1])
            THEN found
            ELSE IF /\ match1Negative # <<>> /\ match2Positive # <<>>
                    /\ areSimilar(match1Negative[1], match2Positive[1])
            THEN found
            ELSE negationFrom(k + 1, stmt1, stmt2, content1, content2)

checkNegationContradiction(stmt1, stmt2) ==
    negationFrom(1, stmt1, stmt2, normalizeContent(stmt1.content),
                 normalizeContent(stmt2.content))

\* the table of checkSemanticContradiction
contradictoryPairs ==
  <<
    <<<<"i", "n", "c", "r", "e", "a", "s", "e">>,
      <<"d", "e", "c", "r", "e", "a", "s", "e">>>>,
    <<<<"r", "i", "s", "e">>,
      <<"f", "a", "l", "l">>>>,
    <<<<"g", "r", "o", "w">>,
      <<"s", "h", "r", "i", "n", "k">>>>,
    <<<<"e", "x", "p", "a", "n", "d">>,
      <<"c", "o", "n", "t", "r", "a", "c", "t">>>>,
    <<<<"s", "t", "r", "e", "n", "g", "t", "h", "e", "n">>,
      <<"w", "e", "a", "k", "e", "n">>>>,
    <<<<"i", "m", "p", "r", "o", "v", "e">>,
      <<"w", "o", "r", "s", "e", "n">>>>,
    <<<<"a", "c", "c", "e", "l", "e", "r", "a", "t", "e">>,
      <<"d", "e", "c", "e", "l", "e", "r", "a", "t", "e">>>>,
    <<<<"p", "o", "s", "i", "t", "i", "v", "e">>,
      <<"n", "e", "g", "a", "t", "i", "v", "e">>>>,
    <<<<"b", "e", "n", "e", "f", "i", "t">>,
      <<"h", "a", "r", "m">>>>,
    <<<<"h", "e", "l", "p">>,
      <<"h", "i", "n", "d", "e", "r">>>>,
    <<<<"s", "u", "p", "p", "o", "r", "t">>,
      <<"o", "p", "p", "o", "s", "e">>>>,
    <<<<"a", "g", "r", "e", "e">>,
      <<"d", "i", "s", "a", "g", "r", "e", "e">>>>,
    <<<<"a", "c", "c", "e", "p", "t">>,
      <<"r", "e", "j", "e", "c", "t">>>>,
    <<<<"a", "l", "l", "o", "w">>,
      <<"f", "o", "r", "b", "i", "d">>>>,
    <<<<"p", "e", "r", "m", "i", "t">>,
      <<"p", "r", "o", "h", "i", "b", "i", "t">>>>
  >>

\* the for loop of checkSemanticContradiction from entry k on
RECURSIVE semanticFrom(_, _, _, _, _)
semanticFrom(k, stmt1, stmt2, content1, content2) ==
    IF k > Len(contradictoryPairs) THEN <<>>
    ELSE LET term1 == contradictoryPairs[k][1]
             term2 == contradictoryPairs[k][2]
             similarity == calculateSimilarity(
                               replaceFirst(replaceFirst(content1, term1), term2),
                               replaceFirst(replaceFirst(content2, term1), term2))
         IN IF /\ (includes(content1, term1) /\ includes(content2, term2))
                  \/ (includes(content1, term2) /\ includes(content2, term1))
               /\ Above(similarity, SemanticNum, SemanticDen)
            THEN <<ContradictionPair(stmt1, stmt2, "Contradictory terms", term1, term2,
                                     "medium")>>
            ELSE semanticFrom(k + 1, stmt1, stmt2, content1, content2)

checkSemanticContradiction(stmt1, stmt2) ==
    semanticFrom(1, stmt1, stmt2, normalizeContent(stmt1.content),
                 normalizeContent(stmt2.content))

\* checkForContradiction asking the semantic detector first
checkForContradictionSemanticFirst(stmt1, stmt2) ==
    IF checkSemanticContradiction(stmt1, stmt2) # <<>>
    THEN checkSemanticContradiction(stmt1, stmt2)
    ELSE IF checkDirectContradiction(stmt1, stmt2) # <<>>
    THEN checkDirectContradiction(stmt1, stmt2)
    ELSE checkNegationContradiction(stmt1, stmt2)

checkForContradiction(stmt1, stmt2) ==
    IF checkDirectContradiction(stmt1, stmt2) # <<>>
    THEN checkDirectContradiction(stmt1, stmt2)
    ELSE IF checkNegationContradiction(stmt1, stmt2) # <<>>
    THEN checkNegationContradiction(stmt1, stmt2)
    ELSE checkSemanticContradiction(stmt1, stmt2)

\* the two loops of detectContradictions from the pair (i, j) on
RECURSIVE detectFrom(_, _, _)
detectFrom(stmts, i, j) ==
    IF i > Len(stmts) THEN <<>>
    ELSE IF j > Len(stmts) THEN detectFrom(stmts, i + 1, i + 2)
    ELSE checkForContradiction(stmts[i], stmts[j]) \o detectFrom(stmts, i, j + 1)

detectContradictions(net) == detectFrom(net.statements, 1, 2)

\* checkNewStatementForContradictions returning at the first contradiction
RECURSIVE checkNewStatementFirstOnly(_, _)
checkNewStatementFirstOnly(existingStatements, newStatement) ==
    IF existingStatements = <<>> THEN <<>>
    ELSE IF checkForContradiction(newStatement, Head(existingStatements)) # <<>>
    THEN checkForContradiction(newStatement, Head(existingStatements))
    ELSE checkNewStatementFirstOnly(Tail(existingStatements), newStatement)

\* checkNewStatementForContradictions over the list getAllStatements() gave
RECURSIVE checkNewStatementForContradictions(_, _)
checkNewStatementForContradictions(existingStatements, newStatement) ==
    IF existingStatements = <<>> THEN <<>>
    ELSE checkForContradiction(newStatement, Head(existingStatements))
         \o checkNewStatementForContradictions(Tail(existingStatements), newStatement)

\* the contents given to the detector
Sentences ==
  {
    \* The sky is always blue
    <<"T", "h", "e", " ", "s", "k", "y", " ", "i", "s", " ", "a", "l", "w", "a", "y", "s", " ", "b", "l", "u", "e">>,
    \* The sky is never blue.
    <<"T", "h", "e", " ", "s", "k", "y", " ", "i", "s", " ", "n", "e", "v", "e", "r", " ", "b", "l", "u", "e", ".">>,
    \* The sky is not blue
    <<"T", "h", "e", " ", "s", "k", "y", " ", "i", "s", " ", "n", "o", "t", " ", "b", "l", "u", "e">>,
    \* Exercise improves health
    <<"E", "x", "e", "r", "c", "i", "s", "e", " ", "i", "m", "p", "r", "o", "v", "e", "s", " ", "h", "e", "a", "l", "t", "h">>,
    \* Exercise does not improve health
    <<"E", "x", "e", "r", "c", "i", "s", "e", " ", "d", "o", "e", "s", " ", "n", "o", "t", " ", "i", "m", "p", "r", "o", "v", "e", " ", "h", "e", "a", "l", "t", "h">>,
    \* It is possible
    <<"I", "t", " ", "i", "s", " ", "p", "o", "s", "s", "i", "b", "l", "e">>,
    \* It is impossible
    <<"I", "t", " ", "i", "s", " ", "i", "m", "p", "o", "s", "s", "i", "b", "l", "e">>,
    \* Global trade will increase
    <<"G", "l", "o", "b", "a", "l", " ", "t", "r", "a", "d", "e", " ", "w", "i", "l", "l", " ", "i", "n", "c", "r", "e", "a", "s", "e">>,
    \* Global trade will not decrease
    <<"G", "l", "o", "b", "a", "l", " ", "t", "r", "a", "d", "e", " ", "w", "i", "l", "l", " ", "n", "o", "t", " ", "d", "e", "c", "r", "e", "a", "s", "e">>,
    \* Taxes increase growth
    <<"T", "a", "x", "e", "s", " ", "i", "n", "c", "r", "e", "a", "s", "e", " ", "g", "r", "o", "w", "t", "h">>,
    \* Taxes decrease growth
    <<"T", "a", "x", "e", "s", " ", "d", "e", "c", "r", "e", "a", "s", "e", " ", "g", "r", "o", "w", "t", "h">>,
    \* Water boils at 100C
    <<"W", "a", "t", "e", "r", " ", "b", "o", "i", "l", "s", " ", "a", "t", " ", "1", "0", "0", "C">>
  }

\* further contents: pairs whose remainders share 4 words of 5 and 5 of 6
MoreSentences ==
  {
    \* Cats always chase grey mice
    <<"C", "a", "t", "s", " ", "a", "l", "w", "a", "y", "s", " ", "c", "h", "a", "s", "e", " ", "g", "r", "e", "y", " ", "m", "i", "c", "e">>,
    \* Old cats never chase grey mice
    <<"O", "l", "d", " ", "c", "a", "t", "s", " ", "n", "e", "v", "e", "r", " ", "c", "h", "a", "s", "e", " ", "g", "r", "e", "y", " ", "m", "i", "c", "e">>,
    \* Old cats never chase grey mice today
    <<"O", "l", "d", " ", "c", "a", "t", "s", " ", "n", "e", "v", "e", "r", " ", "c", "h", "a", "s", "e", " ", "g", "r", "e", "y", " ", "m", "i", "c", "e", " ", "t", "o", "d", "a", "y">>,
    \* Old cats always chase grey mice
    <<"O", "l", "d", " ", "c", "a", "t", "s", " ", "a", "l", "w", "a", "y", "s", " ", "c", "h", "a", "s", "e", " ", "g", "r", "e", "y", " ", "m", "i", "c", "e">>
  }

\* ------------------------------------------------- KnowledgeNetwork.query
\* QueryOptions: every field is optional, <<>> when it is not given and
\* <<value>> when it is

\* query asking for every tag of options.tags
queryEveryTag(net, options) ==
    LET byType(s) == s.type = options.type[1]
        byTags(s) == \A k \in 1..Len(options.tags[1]) : options.tags[1][k] \in Range(s.tags)
        byContent(s) == includes(toLowerCase(s.content), toLowerCase(options.content[1]))
        byDerivedFrom(s) ==
            \E k \in 1..Len(options.derivedFrom[1]) :
                options.derivedFrom[1][k] \in Range(s.derivedFrom)
        byMinConfidence(s) ==
            s.confidence # <<>> /\ s.confidence[1] >= options.minConfidence[1]
        results1 == IF options.type # <<>>
                    THEN SelectSeq(net.statements, byType) ELSE net.statements
        results2 == IF options.tags # <<>> /\ Len(options.tags[1]) > 0
                    THEN SelectSeq(results1, byTags) ELSE results1
        results3 == IF options.content # <<>> /\ Len(options.content[1]) > 0
                    THEN SelectSeq(results2, byContent) ELSE results2
        results4 == IF options.derivedFrom # <<>> /\ Len(options.derivedFrom[1]) > 0
                    THEN SelectSeq(results3, byDerivedFrom) ELSE results3
    IN IF options.minConfidence # <<>>
       THEN SelectSeq(results4, byMinConfidence) ELSE results4

query(net, options) ==
    LET byType(s) == s.type = options.type[1]
        byTags(s) == \E k \in 1..Len(options.tags[1]) : options.tags[1][k] \in Range(s.tags)
        byContent(s) == includes(toLowerCase(s.content), toLowerCase(options.content[1]))
        byDerivedFrom(s) ==
            \E k \in 1..Len(options.derivedFrom[1]) :
                options.derivedFrom[1][k] \in Range(s.derivedFrom)
        byMinConfidence(s) ==
            s.confidence # <<>> /\ s.confidence[1] >= options.minConfidence[1]
        results1 == IF options.type # <<>>
                    THEN SelectSeq(net.statements, byType) ELSE net.statements
        results2 == IF options.tags # <<>> /\ Len(options.tags[1]) > 0
                    THEN SelectSeq(results1, byTags) ELSE results1
        results3 == IF options.content # <<>> /\ Len(options.content[1]) > 0
                    THEN SelectSeq(results2, byContent) ELSE results2
        results4 == IF options.derivedFrom # <<>> /\ Len(options.derivedFrom[1]) > 0
                    THEN SelectSeq(results3, byDerivedFrom) ELSE results3
    IN IF options.minConfidence # <<>>
       THEN SelectSeq(results4, byMinConfidence) ELSE results4

\* ------------------------------------------------------------ QueryService
\* the inner loop of getRelatedStatements: the children of one parent join
\* siblings unless they are the statement itself or already listed
RECURSIVE pushSiblings(_, _, _)
pushSiblings(parentChildren, statementId, siblings) ==
    IF parentChildren = <<>> THEN siblings
    ELSE pushSiblings(Tail(parentChildren), statementId,
                      IF Head(parentChildren) # statementId
                         /\ Head(parentChildren) \notin Range(siblings)
                      THEN Append(siblings, Head(parentChildren))
                      ELSE siblings)

\* the outer loop over statement.derivedFrom
RECURSIVE collectSiblings(_, _, _, _, _)
collectSiblings(net, order, parents, statementId, siblings) ==
    IF parents = <<>> THEN siblings
    ELSE collectSiblings(net, order, Tail(parents), statementId,
                         pushSiblings(listInOrder(order, getDependents(net, Head(parents))),
                                      statementId, siblings))

\* getRelatedStatements: the three lists, each statement given by its id
getRelatedStatements(net, order, statementId) ==
    IF ~has(net.statements, statementId)
    THEN [parents |-> <<>>, children |-> <<>>, siblings |-> <<>>]
    ELSE LET statement == get(net.statements, statementId)
             stored(id) == has(net.statements, id)
         IN [parents |-> SelectSeq(statement.derivedFrom, stored),
             children |-> listInOrder(order, getDependents(net, statementId)),
             siblings |-> collectSiblings(net, order, statement.derivedFrom,
                                          statementId, <<>>)]

\* ------------------------------------------------------------ the program
\* last is the call made last and how it ended; budget is the number of
\* calls the run may still make
VARIABLES statements, derivationMap, last, budget

\* the process that serves requests (network-instance): network is the
\* module's variable of that name, 0 for null or else the place in heap of a
\* KnowledgeNetwork object; heap holds the objects load() has made, each the
\* set of the callers whose update it has received; file is the content of
\* the storage file; callers is where each request handler stands
VARIABLES network, heap, file, callers
instance == <<network, heap, file, callers>>

vars == <<statements, derivationMap, last, budget, network, heap, file, callers>>

Network == [statements |-> statements, derivationMap |-> derivationMap]

Callers == 1..MaxCallers

\* the module has been loaded and every handler is about to start
InstanceNew ==
    /\ network = 0
    /\ heap = <<>>
    /\ file = {}
    /\ callers = [c \in Callers |-> [pc |-> "begin", graph |-> 0, saving |-> 0]]

New ==
    /\ statements = <<>>
    /\ derivationMap = <<>>
    /\ last = [op |-> "new", result |-> "ok"]
    /\ InstanceNew

Init == New /\ budget = MaxOps

InitDerivation == New /\ budget = MaxCalls

Apply(op, r) ==
    /\ budget > 0
    /\ statements' = r.statements
    /\ derivationMap' = r.derivationMap
    /\ last' = [op |-> op, result |-> r.result]
    /\ budget' = budget - 1
    /\ UNCHANGED instance

AddStatement(s) == Apply("addStatement", addStatement(Network, s))

UpdateStatement(id, updates) ==
    Apply("updateStatement", updateStatement(Network, id, updates))

DeleteStatement(id) == Apply("deleteStatement", deleteStatement(Network, id))

\* KnowledgeNetwork.fromJSON(network.toJSON()): builds another network and
\* leaves this one alone
RoundTrip ==
    Apply("fromJSON", Outcome(fromJSON(toJSON(Network)).result,
                              statements, derivationMap))

Next ==
    \/ \E s \in Statements : AddStatement(s)
    \/ \E id \in Ids, updates \in Updates : UpdateStatement(id, updates)
    \/ \E id \in Ids : DeleteStatement(id)
    \/ RoundTrip

Spec == Init /\ [][Next]_vars

\* longer runs over statements with at most one parent
NextChain ==
    \/ \E s \in ChainStatements : AddStatement(s)
    \/ \E id \in Ids, updates \in ChainUpdates : UpdateStatement(id, updates)
    \/ \E id \in Ids : DeleteStatement(id)
    \/ RoundTrip

SpecChain == InitDerivation /\ [][NextChain]_vars

\* the same calls in runs of MaxOps calls
SpecChainShort == Init /\ [][NextChain]_vars

\* longer runs made of the calls that return normally only
NextAccepted ==
    \/ \E s \in DerivationStatements : AddStatement(s) /\ last'.result = "ok"
    \/ \E id \in Ids, updates \in DerivationUpdates :
          UpdateStatement(id, updates) /\ last'.result = "ok"
    \/ \E id \in Ids : DeleteStatement(id) /\ last'.result = "ok"
    \/ RoundTrip

SpecAccepted == InitDerivation /\ [][NextAccepted]_vars

\* runs of MaxOps + 1 accepted calls that build networks of statements with
\* every field varied
InitBuild == New /\ budget = MaxOps + 1

NextAcceptedFields ==
    \/ \E s \in Statements : AddStatement(s) /\ last'.result = "ok"
    \/ \E id \in Ids : DeleteStatement(id) /\ last'.result = "ok"
    \/ RoundTrip

SpecAcceptedFields == InitBuild /\ [][NextAcceptedFields]_vars

AskClearingIndex(op, arguments, value) ==
    /\ budget > 0
    /\ last' = [op |-> op, result |-> "ok", arguments |-> arguments, value |-> value]
    /\ budget' = 0
    /\ derivationMap' = <<>>
    /\ UNCHANGED statements
    /\ UNCHANGED instance

\* a call to the DerivationEngine: it reads the network, and the run ends
\* with its answer in last
Ask(op, arguments, value) ==
    /\ budget > 0
    /\ last' = [op |-> op, result |-> "ok", arguments |-> arguments, value |-> value]
    /\ budget' = 0
    /\ UNCHANGED <<statements, derivationMap>>
    /\ UNCHANGED instance

\* the orders in which the buckets of the reverse index can list their ids
Orders == Permutations(Ids)

GetAllAncestors(id) ==
    Ask("getAllAncestors", <<id>>, SetOfIds(getAllAncestors(Network, id)))

GetAllDescendants(id, order) ==
    Ask("getAllDescendants", <<id>>, SetOfIds(getAllDescendants(Network, order, id)))

CalculateConfidence(id) ==
    Ask("calculateConfidence", <<id>>, calculateConfidence(Network, id, {}))

FindShortestPath(fromId, toId, order) ==
    Ask("findShortestPath", <<fromId, toId>>,
        findShortestPath(Network, order, fromId, toId))

GetDerivationDepth(id) ==
    Ask("getDerivationDepth", <<id>>, getDerivationDepth(Network, id, {}))

\* networks built by accepted calls, then one call to the engine
NextEngine ==
    \/ \E s \in DerivationStatements : AddStatement(s) /\ last'.result = "ok"
    \/ \E id \in Ids, updates \in DerivationUpdates :
          UpdateStatement(id, updates) /\ last'.result = "ok"
    \/ \E id \in Ids : DeleteStatement(id) /\ last'.result = "ok"
    \/ \E id \in Ids : GetAllAncestors(id)
    \/ \E id \in Ids, order \in Orders : GetAllDescendants(id, order)
    \/ \E fromId \in Ids, toId \in Ids, order \in Orders :
          FindShortestPath(fromId, toId, order)
    \/ \E id \in Ids : GetDerivationDepth(id)

SpecEngine == InitBuild /\ [][NextEngine]_vars

\* every call, rejected ones included, then one call to the engine
NextEngineAll ==
    \/ \E s \in DerivationStatements : AddStatement(s)
    \/ \E id \in Ids, updates \in DerivationUpdates : UpdateStatement(id, updates)
    \/ \E id \in Ids : DeleteStatement(id)
    \/ \E id \in Ids : GetAllAncestors(id)
    \/ \E id \in Ids, order \in Orders : GetAllDescendants(id, order)
    \/ \E fromId \in Ids, toId \in Ids, order \in Orders :
          FindShortestPath(fromId, toId, order)
    \/ \E id \in Ids : GetDerivationDepth(id)

SpecEngineAll == InitBuild /\ [][NextEngineAll]_vars

\* statements and updates that vary the confidence: three fifths, four
\* fifths, absent, and the out-of-range -0.01 in an update
\* (parents are listed once each, in ascending order)
AscendingDerivedFroms ==
    {d \in DerivedFroms : \A i \in 1..Len(d) - 1 : d[i] < d[i + 1]}

ConfidenceStatements ==
    Constructed({<<"a">>}, {<<>>, <<(3 * One) \div 5>>, <<(4 * One) \div 5>>},
                {<<>>}, AscendingDerivedFroms)

ConfidenceUpdates ==
    {[confidence |-> <<-1>>], [confidence |-> <<One>>]}
    \cup {[type |-> "axiom"]}
    \cup {[derivedFrom |-> d] : d \in ChainDerivedFroms}

\* every call, rejected ones included, then one call to calculateConfidence
NextConfidence ==
    \/ \E s \in ConfidenceStatements : AddStatement(s)
    \/ \E id \in Ids, updates \in ConfidenceUpdates : UpdateStatement(id, updates)
    \/ \E id \in Ids : DeleteStatement(id)
    \/ \E id \in Ids : CalculateConfidence(id)

SpecConfidence == InitBuild /\ [][NextConfidence]_vars

\* ContradictionDetector over networks whose statements say the Sentences:
\* a statement is made without an id option, so that its id is a fresh one,
\* and added; detectContradictions reads the network and ends the run
DetectorStatements == Constructed(Sentences, {<<>>}, {<<>>}, {<<>>})

DetectContradictions ==
    Ask("detectContradictions", <<>>, detectContradictions(Network))

NextDetector ==
    \/ \E s \in DetectorStatements :
          s.id = Len(statements) + 1 /\ AddStatement(s) /\ last'.result = "ok"
    \/ DetectContradictions

SpecDetector == InitBuild /\ [][NextDetector]_vars


\* ContradictionDetector over networks of at most two statements saying the
\* Sentences or the MoreSentences
PairStatements == Constructed(Sentences \cup MoreSentences, {<<>>}, {<<>>}, {<<>>})

NextPairs ==
    \/ \E s \in PairStatements :
          s.id = Len(statements) + 1 /\ AddStatement(s) /\ last'.result = "ok"
    \/ DetectContradictions

SpecPairs == Init /\ [][NextPairs]_vars

\* KnowledgeNetwork.query over networks built by two accepted calls; the
\* filters give at most two of the five criteria
QueryStatements ==
    Constructed({<<"a">>, <<"A", "b">>}, {<<>>, <<(3 * One) \div 5>>},
                {<<>>, <<"t">>}, ChainDerivedFroms)

Filters ==
    LET all == [type : {<<>>} \cup {<<t>> : t \in StatementTypes},
                tags : {<<>>, << <<>> >>, << <<"t">> >>, << <<"u", "t">> >>},
                content : {<<>>, << <<>> >>, << <<"A">> >>, << <<"b">> >>},
                derivedFrom : {<<>>, << <<>> >>, << <<1>> >>, << <<2, 1>> >>},
                minConfidence : {<<>>, <<0>>, <<(3 * One) \div 5>>,
                                 <<(3 * One) \div 5 + 1>>}]
    IN {o \in all : Cardinality({f \in DOMAIN o : o[f] # <<>>}) <= 2}

Query(options) == Ask("query", <<options>>, query(Network, options))

NextQuery ==
    \/ \E s \in QueryStatements : AddStatement(s) /\ last'.result = "ok"
    \/ \E id \in Ids : DeleteStatement(id) /\ last'.result = "ok"
    \/ \E options \in Filters : Query(options)

SpecQuery == Init /\ [][NextQuery]_vars

\* every call, rejected ones included, then one call to getRelatedStatements
GetRelatedStatements(id, order) ==
    Ask("getRelatedStatements", <<id>>, getRelatedStatements(Network, order, id))

NextRelated ==
    \/ \E s \in DerivationStatements : AddStatement(s)
    \/ \E id \in Ids, updates \in DerivationUpdates : UpdateStatement(id, updates)
    \/ \E id \in Ids : DeleteStatement(id)
    \/ \E id \in Ids, order \in Orders : GetRelatedStatements(id, order)

SpecRelated == InitBuild /\ [][NextRelated]_vars

\* every call, rejected ones included, then one call to a recursive
\* operation of the engine
GetDerivationChain(id) ==
    Ask("getDerivationChain", <<id>>, getDerivationChain(Network, id))

NextRecursive ==
    \/ \E s \in DerivationStatements : AddStatement(s)
    \/ \E id \in Ids, updates \in DerivationUpdates : UpdateStatement(id, updates)
    \/ \E id \in Ids : DeleteStatement(id)
    \/ \E id \in Ids : GetDerivationChain(id)
    \/ \E id \in Ids : GetDerivationDepth(id)
    \/ \E id \in Ids : CalculateConfidence(id)

SpecRecursive == InitBuild /\ [][NextRecursive]_vars

\* networks of at most two statements saying the Sentences, then one call to
\* checkNewStatementForContradictions with a statement that is not stored
CheckNewStatementForContradictions(newStatement) ==
    Ask("checkNewStatementForContradictions", <<newStatement>>,
        checkNewStatementForContradictions(statements, newStatement))

NextCheckNew ==
    \/ \E s \in DetectorStatements :
          s.id = Len(statements) + 1 /\ AddStatement(s) /\ last'.result = "ok"
    \/ \E s \in DetectorStatements :
          s.id = Len(statements) + 1 /\ CheckNewStatementForContradictions(s)

SpecCheckNew == Init /\ [][NextCheckNew]_vars

\* every call, rejected ones included, then one call to an operation of the
\* DerivationEngine, the ContradictionDetector or the QueryService
NextReads ==
    \/ \E s \in DerivationStatements : AddStatement(s)
    \/ \E id \in Ids, updates \in DerivationUpdates : UpdateStatement(id, updates)
    \/ \E id \in Ids : DeleteStatement(id)
    \/ \E id \in Ids : GetAllAncestors(id)
    \/ \E id \in Ids, order \in Orders : GetAllDescendants(id, order)
    \/ \E fromId \in Ids, toId \in Ids, order \in Orders :
          FindShortestPath(fromId, toId, order)
    \/ \E id \in Ids : GetDerivationDepth(id)
    \/ \E id \in Ids : GetDerivationChain(id)
    \/ \E id \in Ids : CalculateConfidence(id)
    \/ DetectContradictions
    \/ \E s \in DerivationStatements : CheckNewStatementForContradictions(s)
    \/ \E options \in Filters : Query(options)
    \/ \E id \in Ids, order \in Orders : GetRelatedStatements(id, order)

SpecReads == Init /\ [][NextReads]_vars

\* request handlers of the process: each runs getNetworkInstance, updates
\* the graph it was given and runs saveNetwork; a step is the code between
\* two awaits
\* getNetworkInstance up to its await: network is tested, and load() is
\* called when it is null
GetNetworkInstance(c) ==
    /\ callers[c].pc = "begin"
    /\ callers' = [callers EXCEPT ![c] =
                      IF network = 0 THEN [@ EXCEPT !.pc = "load"]
                      ELSE [@ EXCEPT !.pc = "got", !.graph = network]]
    /\ UNCHANGED <<network, heap, file>>
    /\ UNCHANGED <<statements, derivationMap, last, budget>>

\* storage.load() resolves with a new KnowledgeNetwork made from the file;
\* getNetworkInstance assigns it to network and returns network
LoadResolves(c) ==
    /\ callers[c].pc = "load"
    /\ heap' = Append(heap, file)
    /\ network' = Len(heap) + 1
    /\ callers' = [callers EXCEPT ![c] = [@ EXCEPT !.pc = "got", !.graph = Len(heap) + 1]]
    /\ UNCHANGED file
    /\ UNCHANGED <<statements, derivationMap, last, budget>>

\* PUT after request.json(): network.updateStatement on the graph it holds
Put(c) ==
    /\ callers[c].pc = "got"
    /\ heap' = [heap EXCEPT ![callers[c].graph] = @ \cup {c}]
    /\ callers' = [callers EXCEPT ![c] = [@ EXCEPT !.pc = "updated"]]
    /\ UNCHANGED <<network, file>>
    /\ UNCHANGED <<statements, derivationMap, last, budget>>

\* saveNetwork up to the first await of storage.save: the module's network
\* is the object handed to save
SaveNetwork(c) ==
    /\ callers[c].pc = "updated"
    /\ callers' = [callers EXCEPT ![c] =
                      IF network # 0 THEN [@ EXCEPT !.pc = "saving", !.saving = network]
                      ELSE [@ EXCEPT !.pc = "done"]]
    /\ UNCHANGED <<network, heap, file>>
    /\ UNCHANGED <<statements, derivationMap, last, budget>>

\* storage.save after mkdir: network.toJSON() is written to the file
SaveWrites(c) ==
    /\ callers[c].pc = "saving"
    /\ file' = heap[callers[c].saving]
    /\ callers' = [callers EXCEPT ![c] = [@ EXCEPT !.pc = "done"]]
    /\ UNCHANGED <<network, heap>>
    /\ UNCHANGED <<statements, derivationMap, last, budget>>

NextInstance ==
    \E c \in Callers :
        \/ GetNetworkInstance(c)
        \/ LoadResolves(c)
        \/ Put(c)
        \/ SaveNetwork(c)
        \/ SaveWrites(c)

SpecInstance == Init /\ [][NextInstance]_vars

\* ------------------------------------------------------------- properties
StoredIds == {statements[i].id : i \in 1..Len(statements)}
ParentsOf(id) == Range(get(statements, id).derivedFrom)
ChildrenOf(id) == {c \in StoredIds : id \in ParentsOf(c)}
Bucket(dm, p) == IF p \in DOMAIN dm THEN dm[p] ELSE {}

\* the ids reached from the frontier by one or more derivedFrom links of
\* stored statements
RECURSIVE ReachedFrom(_, _)
ReachedFrom(frontier, seen) ==
    LET step == UNION {ParentsOf(x) : x \in frontier \cap StoredIds} \ seen
    IN IF step = {} THEN seen ELSE ReachedFrom(step, seen \cup step)

AncestorsOf(id) == ReachedFrom({id}, {})

GraphUnchanged == statements' = statements /\ derivationMap' = derivationMap

\* C1: after any sequence of add / update / delete calls, rejected ones
\* included, no stored statement is reachable from itself by one or more
\* derivedFrom links.
C1_DerivedFromAcyclic == \A id \in StoredIds : id \notin AncestorsOf(id)

\* C2: after any sequence of calls, rejected ones included, every id in the
\* derivedFrom of a stored statement is the id of a stored statement.
C2_NoDanglingParent == \A id \in StoredIds : ParentsOf(id) \subseteq StoredIds

\* C3: after any sequence of calls, rejected ones included, c is in
\* derivationMap[p] exactly when c is stored and p is in c.derivedFrom.
C3_ReverseIndexAgrees ==
    \A p \in Ids, c \in Ids :
        c \in Bucket(derivationMap, p) <=> (c \in StoredIds /\ p \in ParentsOf(c))

\* C4: when B.derivedFrom contains A, updateStatement(A, {derivedFrom: [B]})
\* fails with the circular-dependency error and leaves every statement and
\* the reverse index as they were.
C4_CyclicUpdateLeavesGraph ==
    [][\A a \in Ids, b \in Ids :
          (/\ last'.op = "updateStatement"
           /\ a \in StoredIds /\ b \in StoredIds /\ a \in ParentsOf(b)
           /\ UpdateStatement(a, [derivedFrom |-> <<b>>]))
          => (last'.result = "cycle" /\ GraphUnchanged)]_vars

\* C5: an updateStatement rejected by a statement-level rule or for an unknown
\* parent leaves type, content, confidence, tags and derivedFrom of the
\* statement as they were.
C5_RejectedUpdateLeavesStatement ==
    [][\A id \in Ids, updates \in Updates :
          (/\ last'.op = "updateStatement"
           /\ last'.result \in {"validation", "dangling"}
           /\ UpdateStatement(id, updates))
          => get(statements', id) = get(statements, id)]_vars

\* C6: in every reachable state every stored statement passes the entity
\* rules: axiom without parents, theory with parents, confidence in [0,1]
\* when present, content not empty after trimming.
C6_StoredStatementsValid ==
    \A i \in 1..Len(statements) : validate(statements[i]) = "ok"

\* C7: deleteStatement(id) of a statement that some other stored statement
\* lists in its derivedFrom fails and leaves the statements map and the
\* reverse index as they were.
C7_DeleteWithDependentsFails ==
    [][\A id \in Ids :
          (/\ last'.op = "deleteStatement"
           /\ id \in StoredIds /\ ChildrenOf(id) \ {id} # {}
           /\ DeleteStatement(id))
          => (last'.result = "hasdependents" /\ GraphUnchanged)]_vars

\* C8: deleteStatement(id) of a stored statement without dependents
\* (getDependents(id) is empty and no stored statement lists id) succeeds,
\* removes id from the statements map and from the bucket of each parent.
C8_DeleteWithoutDependentsSucceeds ==
    [][\A id \in Ids :
          (/\ last'.op = "deleteStatement"
           /\ id \in StoredIds
           /\ getDependents(Network, id) = {} /\ ChildrenOf(id) = {}
           /\ DeleteStatement(id))
          => (/\ last'.result = "ok"
              /\ ~has(statements', id)
              /\ \A p \in ParentsOf(id) : id \notin Bucket(derivationMap', p))]_vars

\* C9: addStatement fails when the id is already stored or a parent is not
\* stored, and a failed addStatement leaves the statements map and the
\* reverse index as they were.
C9_FailedAddLeavesGraph ==
    [][\A s \in ChainStatements :
          (last'.op = "addStatement" /\ AddStatement(s))
          => (/\ (has(statements, s.id)
                  \/ \E p \in Range(s.derivedFrom) : ~has(statements, p))
                 => last'.result # "ok"
              /\ last'.result # "ok" => GraphUnchanged)]_vars

\* an addStatement naming a parent that is not stored was rejected on a
\* network that holds statements
C9_Witness ==
    /\ last.op = "addStatement"
    /\ last.result = "dangling"
    /\ statements # <<>>
    /\ derivationMap # <<>>

\* C10: for every network reached by accepted calls (here: one in which no
\* statement lists a parent twice), KnowledgeNetwork.fromJSON(network.toJSON())
\* succeeds.
C10_RoundTripSucceeds ==
    (/\ last.op = "fromJSON"
     /\ \A id \in StoredIds :
           Cardinality(ParentsOf(id)) = Len(get(statements, id).derivedFrom))
    => last.result = "ok"

\* C11: whenever KnowledgeNetwork.fromJSON(g.toJSON()) returns a network g2,
\* g2 holds the ids of g, every statement has the type, content, confidence,
\* tags and derivedFrom it has in g, and getDependents(id) is the same set of
\* ids in g2 as in g for every id.
C11_RoundTripEqual ==
    (last.op = "fromJSON" /\ last.result = "ok")
    => LET r == fromJSON(toJSON(Network))
           g2 == [statements |-> r.statements, derivationMap |-> r.derivationMap]
       IN /\ {g2.statements[i].id : i \in 1..Len(g2.statements)} = StoredIds
          /\ \A id \in StoredIds : get(g2.statements, id) = get(statements, id)
          /\ \A id \in Ids : getDependents(g2, id) = getDependents(Network, id)

\* the answers of calculateConfidence for the parents of a stored statement,
\* and the numbers among them
ParentAnswers(id) ==
    {calculateConfidence(Network, p, {}) : p \in ParentsOf(id)}

ResolvedParents(id) == {a.value : a \in {b \in ParentAnswers(id) : b.kind = "number"}}

Least(numbers) == CHOOSE m \in numbers : \A n \in numbers : m <= n

\* C12: when calculateConfidence(id) returns for a stored statement, it
\* returns the explicit confidence if there is one; otherwise 1.0 for an
\* axiom; otherwise 0.95 times the least calculateConfidence(p) over the
\* parents p for which it is defined, and undefined when there is no parent
\* or no parent resolves.
C12_ConfidenceRule ==
    (/\ last.op = "calculateConfidence"
     /\ has(statements, last.arguments[1])
     /\ last.value.kind # "RangeError")
    => LET id == last.arguments[1]
           s == get(statements, id)
       IN IF s.confidence # <<>>
          THEN last.value = Number(s.confidence[1] * Fine)
          ELSE IF s.type = "axiom" THEN last.value = Number(One * Fine)
          ELSE IF ResolvedParents(id) = {} THEN last.value = Undefined
          ELSE /\ last.value.kind = "number"
               /\ DiscountDen * last.value.value
                     = DiscountNum * Least(ResolvedParents(id))

\* a statement without a confidence of its own, with one parent at 0.8 and
\* one at 0.6, was answered 0.57
C12_Witness ==
    /\ last.op = "calculateConfidence"
    /\ has(statements, last.arguments[1])
    /\ get(statements, last.arguments[1]).confidence = <<>>
    /\ ResolvedParents(last.arguments[1])
          = {((4 * One) \div 5) * Fine, ((3 * One) \div 5) * Fine}
    /\ One * last.value.value = 57 * One * Fine

Walks == UNION {[1..n -> StoredIds] : n \in 1..MaxId}

Derivations(id) ==
    {w \in Walks : /\ w[1] = id
                   /\ \A i \in 1..Len(w) - 1 : w[i + 1] \in ParentsOf(w[i])
                   /\ ParentsOf(w[Len(w)]) = {}}

Linked(a, b) == a \in ParentsOf(b) \/ b \in ParentsOf(a)

Links(fromId, toId) ==
    {w \in Walks : /\ w[1] = fromId
                   /\ w[Len(w)] = toId
                   /\ \A i \in 1..Len(w) - 1 : Linked(w[i], w[i + 1])}

Greatest(numbers) == CHOOSE m \in numbers : \A n \in numbers : m >= n

\* C14: getDerivationDepth(id) of a stored statement (whose ancestors are
\* stored and free of cycles) is 0 when the statement has no parents,
\* otherwise 1 + the greatest depth of its parents, and it is the number of
\* links of the longest derivedFrom path from the statement to a statement
\* without parents.
C14_DepthIsLongestPath ==
    (/\ last.op = "getDerivationDepth"
     /\ has(statements, last.arguments[1])
     /\ AncestorsOf(last.arguments[1]) \subseteq StoredIds
     /\ \A a \in AncestorsOf(last.arguments[1]) \cup {last.arguments[1]} :
           a \notin AncestorsOf(a))
    => LET id == last.arguments[1]
       IN /\ ParentsOf(id) = {} => last.value = Number(0)
          /\ ParentsOf(id) # {} =>
                last.value = Number(1 + Greatest({getDerivationDepth(Network, p, {}).value :
                                                     p \in ParentsOf(id)}))
          /\ Derivations(id) # {}
          /\ last.value = Number(Greatest({Len(w) - 1 : w \in Derivations(id)}))

\* C15: when fromId and toId are stored and joined by parent / child links,
\* findShortestPath returns a sequence from fromId to toId whose consecutive
\* ids are parent and child in one direction or the other, and no such
\* sequence is shorter.
C15_ShortestPath ==
    (/\ last.op = "findShortestPath"
     /\ has(statements, last.arguments[1]) /\ has(statements, last.arguments[2])
     /\ Links(last.arguments[1], last.arguments[2]) # {})
    => /\ last.value.kind = "path"
       /\ last.value.path \in Links(last.arguments[1], last.arguments[2])
       /\ \A w \in Links(last.arguments[1], last.arguments[2]) :
             Len(last.value.path) <= Len(w)

\* C16: findShortestPath returns null when fromId or toId is not stored
\* (fromId = toId included) and when the two stored statements are not
\* joined by parent / child links.
C16_NoPathIsNull ==
    (/\ last.op = "findShortestPath"
     /\ \/ ~has(statements, last.arguments[1])
        \/ ~has(statements, last.arguments[2])
        \/ Links(last.arguments[1], last.arguments[2]) = {})
    => last.value = Null

\* the ids reached from the frontier by one or more dependents links
RECURSIVE ReachedDown(_, _)
ReachedDown(frontier, seen) ==
    LET step == UNION {getDependents(Network, x) : x \in frontier} \ seen
    IN IF step = {} THEN seen ELSE ReachedDown(step, seen \cup step)

DescendantsOf(id) == ReachedDown({id}, {})

\* C17: getAllAncestors(id) is the set of ids reached from id by one or more
\* derivedFrom links and getAllDescendants(id) the set reached by one or
\* more dependents links; both are empty for an id that is not stored.
C17_TransitiveClosures ==
    /\ last.op = "getAllAncestors" =>
          /\ last.value = SetOfIds(AncestorsOf(last.arguments[1]))
          /\ ~has(statements, last.arguments[1]) => last.value.ids = {}
    /\ last.op = "getAllDescendants" =>
          /\ last.value = SetOfIds(DescendantsOf(last.arguments[1]))
          /\ ~has(statements, last.arguments[1]) => last.value.ids = {}

\* getAllAncestors answered the two ancestors of the apex of a diamond: one
\* parent of the statement is a parent of its other parent
C17_Witness ==
    /\ last.op = "getAllAncestors"
    /\ has(statements, last.arguments[1])
    /\ Cardinality(last.value.ids) = 2
    /\ Cardinality(ParentsOf(last.arguments[1])) = 2
    /\ \E p \in ParentsOf(last.arguments[1]) :
          p \in StoredIds /\ ParentsOf(p) \cap ParentsOf(last.arguments[1]) # {}

\* the places in the list returned by detectContradictions that are about
\* the statements stored at i and j
ReportedFor(i, j) ==
    {k \in 1..Len(last.value) :
        {last.value[k].statement1.id, last.value[k].statement2.id}
            = {statements[i].id, statements[j].id}}

StoredPairs == {p \in (1..Len(statements)) \X (1..Len(statements)) : p[1] < p[2]}

\* what the first of the detectors direct, negation, semantic that fires says
FirstToFire(stmt1, stmt2) ==
    IF checkDirectContradiction(stmt1, stmt2) # <<>>
    THEN checkDirectContradiction(stmt1, stmt2)
    ELSE IF checkNegationContradiction(stmt1, stmt2) # <<>>
    THEN checkNegationContradiction(stmt1, stmt2)
    ELSE checkSemanticContradiction(stmt1, stmt2)

\* C18: the list detectContradictions returns holds records about pairs of
\* distinct stored statements only, and for each unordered pair it holds no
\* record when no detector fires and else exactly one record, the one made
\* by the first of the detectors direct, negation, semantic that fires
C18_FirstDetectorWins ==
    last.op = "detectContradictions" =>
        /\ \A k \in 1..Len(last.value) : \E p \in StoredPairs : k \in ReportedFor(p[1], p[2])
        /\ \A p \in StoredPairs :
              LET first == FirstToFire(statements[p[1]], statements[p[2]])
              IN /\ Cardinality(ReportedFor(p[1], p[2])) = Len(first)
                 /\ \A k \in ReportedFor(p[1], p[2]) : last.value[k] = first[1]

\* detectContradictions has answered on a pair at which the negation and the
\* semantic detector both fire, with the record of the negation detector
C18_Witness ==
    /\ last.op = "detectContradictions"
    /\ \E p \in StoredPairs :
          /\ checkDirectContradiction(statements[p[1]], statements[p[2]]) = <<>>
          /\ checkNegationContradiction(statements[p[1]], statements[p[2]]) # <<>>
          /\ checkSemanticContradiction(statements[p[1]], statements[p[2]]) # <<>>
          /\ \E k \in ReportedFor(p[1], p[2]) :
                last.value[k].reason.text = "Direct negation pattern detected"

\* the words of words1 with the words a at one place, and words2 the same
\* words with the words b at that place
OneForOther(words1, words2, a, b) ==
    \E at \in 0..(Len(words1) - Len(a)) :
        /\ SubSeq(words1, at + 1, at + Len(a)) = a
        /\ words2 = SubSeq(words1, 1, at) \o b
                       \o SubSeq(words1, at + Len(a) + 1, Len(words1))

\* C19: two stored statements whose normalized contents are the same words
\* but for one saying A where the other says B, (A, B) an entry of the table
\* of opposites, are reported by detectContradictions with severity high and
\* a reason that names A and B
C19_OppositeTermsReported ==
    last.op = "detectContradictions" =>
        \A p \in StoredPairs, e \in 1..Len(opposites) :
            LET words1 == split(normalizeContent(statements[p[1]].content))
                words2 == split(normalizeContent(statements[p[2]].content))
                a == split(opposites[e][1])
                b == split(opposites[e][2])
            IN OneForOther(words1, words2, a, b) \/ OneForOther(words2, words1, a, b)
               => \E k \in ReportedFor(p[1], p[2]) :
                     /\ last.value[k].severity = "high"
                     /\ last.value[k].reason.text = "Opposing terms"
                     /\ {last.value[k].reason.term1, last.value[k].reason.term2}
                            = {opposites[e][1], opposites[e][2]}

ExerciseImprovesHealth ==
    <<"E", "x", "e", "r", "c", "i", "s", "e", " ", "i", "m", "p", "r", "o", "v", "e", "s", " ", "h", "e", "a", "l", "t", "h">>
ExerciseDoesNotImproveHealth ==
    <<"E", "x", "e", "r", "c", "i", "s", "e", " ", "d", "o", "e", "s", " ", "n", "o", "t", " ", "i", "m", "p", "r", "o", "v", "e", " ", "h", "e", "a", "l", "t", "h">>

\* C20: two stored statements saying 'Exercise improves health' and 'Exercise
\* does not improve health' are reported by detectContradictions with
\* severity high and the reason of the negation detector
C20_ExerciseReportedByNegation ==
    last.op = "detectContradictions" =>
        \A p \in StoredPairs :
            {statements[p[1]].content, statements[p[2]].content}
                = {ExerciseImprovesHealth, ExerciseDoesNotImproveHealth}
            => \E k \in ReportedFor(p[1], p[2]) :
                  /\ last.value[k].severity = "high"
                  /\ last.value[k].reason.text = "Direct negation pattern detected"

\* entry e of the table of opposites applies to the statements stored at
\* p[1] and p[2]: one contains its first word and the other its second
Applies(p, e) ==
    LET content1 == normalizeContent(statements[p[1]].content)
        content2 == normalizeContent(statements[p[2]].content)
    IN \/ includes(content1, opposites[e][1]) /\ includes(content2, opposites[e][2])
       \/ includes(content1, opposites[e][2]) /\ includes(content2, opposites[e][1])

\* the remainder of the content stored at i once both words of entry e are
\* stripped, normalized
Remainder(i, e) ==
    normalizeContent(replaceFirst(replaceFirst(normalizeContent(statements[i].content),
                                               opposites[e][1]), opposites[e][2]))

\* the Jaccard similarity of the remainders of the pair p under entry e
RemainderSimilarity(p, e) == calculateSimilarity(Remainder(p[1], e), Remainder(p[2], e))

\* the direct detector reports the pair p
ReportedOpposing(p) ==
    \E k \in ReportedFor(p[1], p[2]) :
        last.value[k].severity = "high" /\ last.value[k].reason.text = "Opposing terms"

\* C21 as stated: a pair to which an entry of the table applies is reported
\* by the direct detector whenever the similarity of its remainders is
\* greater than or equal to 0.8
C21_ReportedFromThreshold ==
    last.op = "detectContradictions" =>
        \A p \in StoredPairs, e \in 1..Len(opposites) :
            /\ Applies(p, e)
            /\ RemainderSimilarity(p, e).num * SimilarDen
                   >= SimilarNum * RemainderSimilarity(p, e).den
            => ReportedOpposing(p)

\* C21 amended: a pair of statements that differ in normalized content or in
\* type, to which an entry applies, is reported by the direct detector when
\* its remainders are equal or their similarity is strictly above 0.8; and a
\* pair the direct detector reports citing an entry has equal remainders or
\* a similarity strictly above 0.8 under that entry, so that a similarity of
\* exactly 0.8 is not enough
C21_ReportedAboveThreshold ==
    last.op = "detectContradictions" =>
        \A p \in StoredPairs, e \in 1..Len(opposites) :
            /\ /\ Applies(p, e)
               /\ \/ normalizeContent(statements[p[1]].content)
                        # normalizeContent(statements[p[2]].content)
                  \/ statements[p[1]].type # statements[p[2]].type
               /\ \/ Remainder(p[1], e) = Remainder(p[2], e)
                  \/ RemainderSimilarity(p, e).num * SimilarDen
                        > SimilarNum * RemainderSimilarity(p, e).den
               => ReportedOpposing(p)
            /\ (\E k \in ReportedFor(p[1], p[2]) :
                    /\ last.value[k].reason.text = "Opposing terms"
                    /\ last.value[k].reason.term1 = opposites[e][1]
                    /\ last.value[k].reason.term2 = opposites[e][2])
               => \/ Remainder(p[1], e) = Remainder(p[2], e)
                  \/ RemainderSimilarity(p, e).num * SimilarDen
                        > SimilarNum * RemainderSimilarity(p, e).den

\* detectContradictions has answered on a pair to which an entry applies and
\* whose remainders share 4 words of 5, and has not reported it
C21_Witness ==
    /\ last.op = "detectContradictions"
    /\ \E p \in StoredPairs, e \in 1..Len(opposites) :
          /\ Applies(p, e)
          /\ RemainderSimilarity(p, e) = [num |-> 4, den |-> 5]
          /\ ReportedFor(p[1], p[2]) = {}

\* the text is part of the content, letter case apart
ContainsText(content, text) ==
    \E at \in 0..(Len(content) - Len(text)) :
        \A k \in 1..Len(text) :
            toLowerCase(<<content[at + k]>>) = toLowerCase(<<text[k]>>)

\* the statement s satisfies every criterion the filter o gives; a list of
\* tags or of ids that is empty, and a search text that is empty, give none
Satisfies(s, o) ==
    /\ o.type # <<>> => s.type = o.type[1]
    /\ o.tags # <<>> /\ o.tags[1] # <<>> => Range(o.tags[1]) \cap Range(s.tags) # {}
    /\ o.content # <<>> /\ o.content[1] # <<>> => ContainsText(s.content, o.content[1])
    /\ o.derivedFrom # <<>> /\ o.derivedFrom[1] # <<>>
          => Range(o.derivedFrom[1]) \cap Range(s.derivedFrom) # {}
    /\ o.minConfidence # <<>>
          => s.confidence # <<>> /\ s.confidence[1] >= o.minConfidence[1]

\* the places of the stored statements that satisfy the filter o
Matching(o) == {i \in 1..Len(statements) : Satisfies(statements[i], o)}

\* C22: query(filter) returns the stored statements that satisfy every
\* criterion the filter gives, each once, in the order in which the
\* statements were inserted
C22_QueryReturnsMatches ==
    last.op = "query" =>
        /\ Len(last.value) = Cardinality(Matching(last.arguments[1]))
        /\ \A i \in Matching(last.arguments[1]) :
              last.value[Cardinality({j \in Matching(last.arguments[1]) : j <= i})]
                  = statements[i]

\* query has answered a filter of tags and confidence on a network in which
\* the statement inserted first has the larger id, and has returned both
\* statements, so that one shares only one of the tags asked for
C22_Witness ==
    /\ last.op = "query"
    /\ last.arguments[1].tags = << <<"u", "t">> >>
    /\ last.arguments[1].minConfidence # <<>>
    /\ Len(statements) = 2
    /\ statements[1].id > statements[2].id
    /\ Len(last.value) = 2

\* C24: in every reachable state, rejected calls included, every bucket of
\* the reverse index holds at least one id
C24_NoEmptyBucket ==
    \A p \in DOMAIN derivationMap : derivationMap[p] # {}

\* a fourth call, an accepted updateStatement, has left three statements of
\* which one theory has a parent, and the index has the bucket of that parent
\* and no other
C24_Witness ==
    /\ last = [op |-> "updateStatement", result |-> "ok"]
    /\ budget = MaxCalls - 4
    /\ Len(statements) = 3
    /\ \E i \in 1..3 :
          /\ statements[i].type = "theory"
          /\ Len(statements[i].derivedFrom) = 1
          /\ DOMAIN derivationMap = {statements[i].derivedFrom[1]}
          /\ derivationMap[statements[i].derivedFrom[1]] = {statements[i].id}

\* C25: for a stored id, siblings lists the stored statements other than id
\* that have a parent in common with id, each once; for an id that is not
\* stored the three lists are empty
C25_SiblingsShareParent ==
    last.op = "getRelatedStatements" =>
        IF last.arguments[1] \notin StoredIds
        THEN last.value = [parents |-> <<>>, children |-> <<>>, siblings |-> <<>>]
        ELSE /\ Range(last.value.siblings)
                  = {t \in StoredIds \ {last.arguments[1]} :
                        ParentsOf(t) \cap ParentsOf(last.arguments[1]) # {}}
             /\ Cardinality(Range(last.value.siblings)) = Len(last.value.siblings)

\* C26: in every state reached by add, update and delete calls, rejected
\* ones included, getDerivationChain, getDerivationDepth and
\* calculateConfidence return for every stored id: their recursion does not
\* come back to a statement it is still working on
C26_RecursionReturns ==
    /\ last.op \in {"getDerivationChain", "getDerivationDepth", "calculateConfidence"}
    /\ last.arguments[1] \in StoredIds
    => last.value.kind # "RangeError"

\* C27: whatever two stored ids a and b, a is among the ancestors
\* getAllAncestors gives for b exactly when b is among the descendants
\* getAllDescendants gives for a
C27_AncestorsDualDescendants ==
    last.op = "getAllDescendants" /\ last.arguments[1] \in StoredIds =>
        \A b \in StoredIds :
            b \in last.value.ids <=> last.arguments[1] \in getAllAncestors(Network, b)

\* the record made for (stmt1, stmt2) with the two statements exchanged
Mirrored(found) ==
    [i \in 1..Len(found) |->
        [found[i] EXCEPT !.statement1 = found[i].statement2,
                         !.statement2 = found[i].statement1]]

\* C28: for every pair of stored statements, what detectContradictions
\* reports for the pair is what checkForContradiction gives for the two
\* statements taken in the other order, but for which statement is listed
\* first: nothing in both orders, or the same severity and reason
C28_CheckIsSymmetric ==
    last.op = "detectContradictions" =>
        \A p \in StoredPairs :
            [i \in 1..Cardinality(ReportedFor(p[1], p[2])) |->
                last.value[CHOOSE k \in ReportedFor(p[1], p[2]) :
                              Cardinality({j \in ReportedFor(p[1], p[2]) : j <= k}) = i]]
                = Mirrored(checkForContradiction(statements[p[2]], statements[p[1]]))

\* detectContradictions has reported a pair whose first statement matches
\* the negative template and whose second matches the positive one only
C28_Witness ==
    /\ last.op = "detectContradictions"
    /\ \E p \in StoredPairs, k \in 1..Len(negationPatterns) :
          /\ match(normalizeContent(statements[p[1]].content),
                   negationPatterns[k].negative) # <<>>
          /\ match(normalizeContent(statements[p[2]].content),
                   negationPatterns[k].negative) = <<>>
          /\ \E i \in ReportedFor(p[1], p[2]) :
                last.value[i].reason.text = "Direct negation pattern detected"

\* the ids of the statements that the list found pairs with the statement id
PairedWith(found, id) ==
    {found[k].statement1.id : k \in {j \in 1..Len(found) : found[j].statement2.id = id}}
    \cup {found[k].statement2.id : k \in {j \in 1..Len(found) : found[j].statement1.id = id}}

\* C29: for a statement s that is not stored, the stored statements that
\* checkNewStatementForContradictions(s) pairs with s are those that
\* detectContradictions pairs with s once s has been added
C29_CheckNewAgreesWithSweep ==
    last.op = "checkNewStatementForContradictions" =>
        LET s == last.arguments[1]
            added == addStatement(Network, s)
        IN added.result = "ok" =>
              PairedWith(last.value, s.id)
                  = PairedWith(detectContradictions(added), s.id)

\* checkNewStatementForContradictions has paired the new statement with two
\* stored statements
C29_Witness ==
    /\ last.op = "checkNewStatementForContradictions"
    /\ Cardinality(PairedWith(last.value, last.arguments[1].id)) = 2

\* C30: the handlers that have been given a graph by getNetworkInstance have
\* all been given the same object, and once the saveNetwork of a handler has
\* finished the file holds the update that handler made
C30_OneNetworkInstance ==
    /\ \A c \in Callers, d \in Callers :
          callers[c].graph # 0 /\ callers[d].graph # 0
              => callers[c].graph = callers[d].graph
    /\ \A c \in Callers : callers[c].pc = "done" => c \in file

\* C23: a call to an operation of DerivationEngine, ContradictionDetector or
\* QueryService leaves the statements map, every field of every statement
\* and the reverse index as they were before the call.
ReadOperations ==
    {"getAllAncestors", "getAllDescendants", "findShortestPath",
     "getDerivationDepth", "getDerivationChain", "calculateConfidence",
     "detectContradictions", "checkNewStatementForContradictions",
     "query", "getRelatedStatements"}

====
